---- MODULE Spec2Model ----
(***************************************************************************)
(* Model of pkg/scanner/scanner.go: the image scanner's orchestration      *)
(* (scanImages over a gammazero workerpool), the image name resolver       *)
(* (stringReplacement) and the vulnerability summariser                    *)
(* (NewScannedImage / buildVulnerabilitySummary).                          *)
(*                                                                         *)
(* Go strings are modelled as sequences of one-character strings, so that  *)
(* strings.Split and strings.Replace are computed and not assumed.         *)
(* A nil slice is the empty sequence; a nil error is FALSE.                *)
(***************************************************************************)
EXTENDS Integers, Sequences, FiniteSets, TLC

(***************************************************************************)
(* Bounds of the model                                                     *)
(***************************************************************************)
MaxContainers == 3
MaxWorkers == 2
MaxRules == 2
MaxNameLen == 3
MaxCount == 100

(***************************************************************************)
(* Program constants: the severity weights                                 *)
(***************************************************************************)
criticalShort == 10 * 1000000
critical == 100000000
high == 1000000
medium == 10000
low == 100
unknown == 1

severityScores ==
    [s \in {"CRITICAL", "HIGH", "MEDIUM", "LOW", "UNKNOWN"} |->
        CASE s = "CRITICAL" -> critical
          [] s = "HIGH" -> high
          [] s = "MEDIUM" -> medium
          [] s = "LOW" -> low
          [] s = "UNKNOWN" -> unknown]

(***************************************************************************)
(* strings.Split(s, sep) for a one-character separator                     *)
(***************************************************************************)
RECURSIVE Split(_, _)
Split(s, sep) ==
    IF \E i \in 1..Len(s) : s[i] = sep
    THEN LET i == CHOOSE i \in 1..Len(s) :
                      s[i] = sep /\ \A j \in 1..(i - 1) : s[j] # sep
         IN  <<SubSeq(s, 1, i - 1)>> \o Split(SubSeq(s, i + 1, Len(s)), sep)
    ELSE <<s>>

HasPrefix(s, p) == Len(p) <= Len(s) /\ SubSeq(s, 1, Len(p)) = p

(***************************************************************************)
(* strings.Replace(s, old, new, -1): scan from the left, replace each      *)
(* non-overlapping occurrence; an empty old matches before every character *)
(* and at the end of the string.                                           *)
(***************************************************************************)
RECURSIVE ReplaceEmptyOld(_, _)
ReplaceEmptyOld(s, new) ==
    IF s = <<>> THEN new
    ELSE new \o <<Head(s)>> \o ReplaceEmptyOld(Tail(s), new)

RECURSIVE ReplaceFromLeft(_, _, _)
ReplaceFromLeft(s, old, new) ==
    IF Len(s) < Len(old) THEN s
    ELSE IF HasPrefix(s, old)
         THEN new \o ReplaceFromLeft(SubSeq(s, Len(old) + 1, Len(s)), old, new)
         ELSE <<Head(s)>> \o ReplaceFromLeft(Tail(s), old, new)

ReplaceFirst(s, old, new) ==
    IF old = <<>> THEN new \o s
    ELSE IF \E i \in 1..(Len(s) - Len(old) + 1) : SubSeq(s, i, i + Len(old) - 1) = old
         THEN LET i == CHOOSE i \in 1..(Len(s) - Len(old) + 1) :
                           /\ SubSeq(s, i, i + Len(old) - 1) = old
                           /\ \A j \in 1..(i - 1) : SubSeq(s, j, j + Len(old) - 1) # old
              IN  SubSeq(s, 1, i - 1) \o new \o SubSeq(s, i + Len(old), Len(s))
         ELSE s

Replace(s, old, new) ==
    IF old = new THEN s
    ELSE IF old = <<>> THEN ReplaceEmptyOld(s, new)
    ELSE ReplaceFromLeft(s, old, new)

(***************************************************************************)
(* Scanner.stringReplacement: the loop over the comma separated patterns.  *)
(* imageName is reassigned by every well-formed pattern, and the current   *)
(* value is what the error return carries.                                 *)
(***************************************************************************)
RECURSIVE ReplacementLoop(_, _, _)
ReplacementLoop(imageName, replacementArr, i) ==
    IF i > Len(replacementArr) THEN [name |-> imageName, err |-> FALSE]
    ELSE LET replacementItems == Split(replacementArr[i], "|")
         IN  IF Len(replacementItems) = 2
             THEN ReplacementLoop(
                      Replace(imageName, replacementItems[1], replacementItems[2]),
                      replacementArr, i + 1)
             ELSE [name |-> imageName, err |-> TRUE]

stringReplacement(imageName, replacement) ==
    IF replacement # <<>>
    THEN ReplacementLoop(imageName, Split(replacement, ","), 1)
    ELSE [name |-> imageName, err |-> FALSE]

(***************************************************************************)
(* Scanner.groupContainersByImageName: containers is a sequence of         *)
(* ContainerSummary records; the result maps every image to the containers *)
(* that use it, in input order.                                            *)
(***************************************************************************)
\* the group of an image is created anew for every container of the image
RECURSIVE GroupLoopRecreate(_, _, _)
GroupLoopRecreate(images, containers, i) ==
    IF i > Len(containers) THEN images
    ELSE LET container == containers[i]
             present == [k \in DOMAIN images \cup {container.Image} |->
                            IF k \in DOMAIN images /\ k # container.Image
                            THEN images[k] ELSE <<>>]
         IN  GroupLoopRecreate(
                 [present EXCEPT ![container.Image] = Append(@, container)],
                 containers, i + 1)

RECURSIVE GroupLoop(_, _, _)
GroupLoop(images, containers, i) ==
    IF i > Len(containers) THEN images
    ELSE LET container == containers[i]
             present == IF container.Image \in DOMAIN images
                        THEN images
                        ELSE [k \in DOMAIN images \cup {container.Image} |->
                                 IF k \in DOMAIN images THEN images[k] ELSE <<>>]
         IN  GroupLoop([present EXCEPT ![container.Image] = Append(@, container)],
                       containers, i + 1)

groupContainersByImageName(containers) == GroupLoop(<<>>, containers, 1)

(***************************************************************************)
(* ScannedImage.buildVulnerabilitySummary and NewScannedImage.  A target   *)
(* (TrivyOutputResults) is represented by the sequence of the Severity     *)
(* strings of its Vulnerabilities.  severityMap is a Go map: a function    *)
(* whose domain grows when an absent key is assigned.                      *)
(***************************************************************************)
MapGet(m, k) == IF k \in DOMAIN m THEN m[k] ELSE 0

\* lines 283-285, the loop over one target's vulnerabilities: every finding
\* adds one to the entry of its severity, absent entries counting from zero
VulnerabilityLoop(severityMap, vulnerabilities) ==
    [severity \in DOMAIN severityMap
                      \cup {vulnerabilities[j] : j \in 1..Len(vulnerabilities)} |->
        MapGet(severityMap, severity)
            + Cardinality({j \in 1..Len(vulnerabilities) : vulnerabilities[j] = severity})]

\* lines 282-286, the loop over the targets
RECURSIVE TargetLoop(_, _, _)
TargetLoop(severityMap, targets, t) ==
    IF t > Len(targets) THEN severityMap
    ELSE TargetLoop(VulnerabilityLoop(severityMap, targets[t]), targets, t + 1)

RECURSIVE ScoreLoop(_, _)
ScoreLoop(severityMap, keys) ==
    IF keys = {} THEN 0
    ELSE LET severity == CHOOSE k \in keys : TRUE
         IN  severityMap[severity] * MapGet(severityScores, severity)
                 + ScoreLoop(severityMap, keys \ {severity})

\* the containers are counted only for an image that was scanned
buildVulnerabilitySummaryScanned(i) ==
    LET severityMap == TargetLoop([s \in DOMAIN severityScores |-> 0],
                                  i.TrivyOutputResults, 1)
    IN  [ContainerCount |-> IF i.ScanError THEN 0 ELSE Len(i.Containers),
         SeverityScore |-> ScoreLoop(severityMap, DOMAIN severityMap),
         TotalVulnerabilityBySeverity |-> severityMap]

buildVulnerabilitySummary(i) ==
    LET severityMap == TargetLoop([s \in DOMAIN severityScores |-> 0],
                                  i.TrivyOutputResults, 1)
    IN  [ContainerCount |-> Len(i.Containers),
         SeverityScore |-> ScoreLoop(severityMap, DOMAIN severityMap),
         TotalVulnerabilityBySeverity |-> severityMap]

NewScannedImage(imageName, containers, trivyOutput, scanError) ==
    LET i == [ImageName |-> imageName,
              Containers |-> containers,
              TrivyOutputResults |-> trivyOutput,
              ScanError |-> scanError]
    IN  [ImageName |-> imageName,
         Containers |-> containers,
         TrivyOutputResults |-> trivyOutput,
         ScanError |-> scanError,
         VulnerabilitySummary |-> buildVulnerabilitySummary(i)]


(***************************************************************************)
(* State                                                                   *)
(***************************************************************************)
VARIABLES
    Workers,                \* Config.Workers
    ImageNameReplacement,   \* Config.ImageNameReplacement
    imageList,              \* argument of scanImages: image -> containers
    pc,                     \* position of scanImages
    dbCalls,                \* number of DownloadDatabase calls made
    dbErr,                  \* err of line 187: DownloadDatabase failed
    tasks,                  \* per image group: the submitted closure and its position
    queue,                  \* workerpool: submitted tasks no worker has taken yet
    scannedImages,          \* the slice shared by the worker closures
    ret,                    \* the slice scanImages returned
    retErr,                 \* the error scanImages returned
    wpStopped,              \* workerpool: StopWait has completed
    resolverCall,           \* a call of stringReplacement: arguments and result
    summaryCall,            \* two calls of NewScannedImage: arguments and results
    groupCall,              \* a call of groupContainersByImageName: argument and result
    cisCall                 \* a call of CisScan: argument, position and result

vars == <<Workers, ImageNameReplacement, imageList, pc, dbCalls, dbErr, tasks, queue,
          scannedImages, ret, retErr, wpStopped, resolverCall, summaryCall,
                   groupCall, cisCall>>

scanVars == <<Workers, ImageNameReplacement, imageList, pc, dbCalls, dbErr, tasks,
              queue, scannedImages, ret, retErr, wpStopped>>

NoCall == [state |-> "none"]

(***************************************************************************)
(* Inputs of the orchestration                                             *)
(***************************************************************************)
ImageNames == {<<"a">>, <<"b">>, <<"c">>}

\* rule strings: "", "a|b", "a|c,x"
ReplacementStrings ==
    { <<>>,
      <<"a", "|", "b">>,
      <<"a", "|", "c", ",", "x">> }

SeqsUpTo(S, n) == UNION {[1..k -> S] : k \in 0..n}

\* the container list of the cluster: a ContainerSummary is represented by
\* its container name and its image
ContainerNames == {"app"}

ContainerLists ==
    SeqsUpTo([Name : ContainerNames, Image : ImageNames], MaxContainers)

\* outcomes of TrivyClient.ScanImage: the findings of a successful scan, or
\* an error with no findings
ScanOutputs == { <<>>, << <<"CRITICAL">>, <<"LOW", "LOW">> >> }

ScanImageResults ==
    {[trivyOutput |-> o, err |-> FALSE] : o \in ScanOutputs}
        \cup {[trivyOutput |-> <<>>, err |-> TRUE]}

(***************************************************************************)
(* workerpool.New(maxWorkers): there is at least one worker                *)
(***************************************************************************)
\* the configured value is used as it is
maxWorkersUnchecked == Workers

maxWorkers == IF Workers < 1 THEN 1 ELSE Workers

Running == {k \in DOMAIN tasks : tasks[k].pc \in {"pull", "scan", "append", "write", "rmi"}}

Unsubmitted ==
    [pc |-> "unsubmitted", resolvedImageName |-> <<>>, resolvedContainers |-> <<>>,
     err |-> FALSE, trivyOutput |-> <<>>, scanError |-> FALSE,
     read |-> <<>>, calls |-> <<>>]

ScanInit ==
    /\ Workers \in 0..MaxWorkers
    /\ ImageNameReplacement \in ReplacementStrings
    /\ \E containers \in ContainerLists :
           imageList = groupContainersByImageName(containers)
    /\ pc = "start"
    /\ dbCalls = 0
    /\ dbErr = FALSE
    /\ tasks = [k \in DOMAIN imageList |-> Unsubmitted]
    /\ queue = <<>>
    /\ scannedImages = <<>>
    /\ ret = <<>>
    /\ retErr = FALSE
    /\ wpStopped = FALSE

Init ==
    /\ ScanInit
    /\ resolverCall = NoCall
    /\ summaryCall = NoCall
    /\ groupCall = NoCall
    /\ cisCall = NoCall

(***************************************************************************)
(* scanImages, lines 185-190: create the pool, download the database       *)
(***************************************************************************)
DownloadDatabaseOk ==
    /\ pc = "start"
    /\ dbCalls' = dbCalls + 1
    /\ dbErr' = FALSE
    /\ pc' = "dispatch"
    /\ UNCHANGED <<Workers, ImageNameReplacement, imageList, tasks, queue,
                   scannedImages, ret, retErr, wpStopped, resolverCall, summaryCall,
                   groupCall, cisCall>>

\* the error of DownloadDatabase is not checked and the loop runs
DownloadDatabaseFailsUnchecked ==
    /\ pc = "start"
    /\ dbCalls' = dbCalls + 1
    /\ dbErr' = TRUE
    /\ pc' = "dispatch"
    /\ UNCHANGED <<Workers, ImageNameReplacement, imageList, tasks, queue,
                   scannedImages, ret, retErr, wpStopped, resolverCall, summaryCall,
                   groupCall, cisCall>>

DownloadDatabaseFails ==
    /\ pc = "start"
    /\ dbCalls' = dbCalls + 1
    /\ dbErr' = TRUE
    /\ pc' = "returned"
    /\ ret' = <<>>
    /\ retErr' = TRUE
    /\ UNCHANGED <<Workers, ImageNameReplacement, imageList, tasks, queue,
                   scannedImages, wpStopped, resolverCall, summaryCall,
                   groupCall, cisCall>>

(***************************************************************************)
(* scanImages, lines 193-228: one iteration of the range loop; the map is  *)
(* iterated in an unspecified order                                        *)
(***************************************************************************)
Submit(imageName) ==
    /\ pc = "dispatch"
    /\ tasks[imageName].pc = "unsubmitted"
    /\ LET resolved == stringReplacement(imageName, ImageNameReplacement)
       IN  tasks' = [tasks EXCEPT ![imageName] =
                        [@ EXCEPT !.pc = "queued",
                                  !.resolvedImageName = resolved.name,
                                  !.resolvedContainers = imageList[imageName]]]
    /\ queue' = Append(queue, imageName)
    /\ UNCHANGED <<Workers, ImageNameReplacement, imageList, pc, dbCalls, dbErr,
                   scannedImages, ret, retErr, wpStopped, resolverCall, summaryCall,
                   groupCall, cisCall>>

LoopEnd ==
    /\ pc = "dispatch"
    /\ \A k \in DOMAIN tasks : tasks[k].pc # "unsubmitted"
    /\ pc' = "stopwait"
    /\ UNCHANGED <<Workers, ImageNameReplacement, imageList, dbCalls, dbErr, tasks, queue,
                   scannedImages, ret, retErr, wpStopped, resolverCall, summaryCall,
                   groupCall, cisCall>>

(***************************************************************************)
(* workerpool: a worker takes the oldest waiting task when fewer than      *)
(* maxWorkers tasks are running                                            *)
(***************************************************************************)
\* one goroutine per task, no pool limit
WorkerPerTask == TRUE

WorkerAvailable == Cardinality(Running) < maxWorkers

StartTask ==
    /\ queue # <<>>
    /\ WorkerAvailable
    /\ tasks' = [tasks EXCEPT ![Head(queue)].pc = "pull"]
    /\ queue' = Tail(queue)
    /\ UNCHANGED <<Workers, ImageNameReplacement, imageList, pc, dbCalls, dbErr,
                   scannedImages, ret, retErr, wpStopped, resolverCall, summaryCall,
                   groupCall, cisCall>>

(***************************************************************************)
(* the worker closure, lines 201-227; its locals err and trivyOutput are   *)
(* gone once it has returned                                               *)
(***************************************************************************)
\* the closure returns when the pull fails
PullImageOrReturn(k) ==
    /\ tasks[k].pc = "pull"
    /\ \E failed \in BOOLEAN :
           tasks' = [tasks EXCEPT ![k] =
                        [@ EXCEPT !.pc = IF failed THEN "done" ELSE "scan",
                                  !.err = IF failed THEN FALSE ELSE failed,
                                  !.calls = Append(@, "PullImage")]]
    /\ UNCHANGED <<Workers, ImageNameReplacement, imageList, pc, dbCalls, dbErr, queue,
                   scannedImages, ret, retErr, wpStopped, resolverCall, summaryCall,
                   groupCall, cisCall>>

PullImage(k) ==
    /\ tasks[k].pc = "pull"
    /\ \E failed \in BOOLEAN :
           tasks' = [tasks EXCEPT ![k] =
                        [@ EXCEPT !.pc = "scan",
                                  !.err = failed,
                                  !.calls = Append(@, "PullImage")]]
    /\ UNCHANGED <<Workers, ImageNameReplacement, imageList, pc, dbCalls, dbErr, queue,
                   scannedImages, ret, retErr, wpStopped, resolverCall, summaryCall,
                   groupCall, cisCall>>

ScanImage(k) ==
    /\ tasks[k].pc = "scan"
    /\ \E r \in ScanImageResults :
           tasks' = [tasks EXCEPT ![k] =
                        [@ EXCEPT !.pc = "append",
                                  !.err = r.err,
                                  !.trivyOutput = r.trivyOutput,
                                  !.scanError = r.err,
                                  !.calls = Append(@, "ScanImage")]]
    /\ UNCHANGED <<Workers, ImageNameReplacement, imageList, pc, dbCalls, dbErr, queue,
                   scannedImages, ret, retErr, wpStopped, resolverCall, summaryCall,
                   groupCall, cisCall>>

\* line 216 is not atomic and holds no lock: append reads the slice ...
AppendRead(k) ==
    /\ tasks[k].pc = "append"
    /\ tasks' = [tasks EXCEPT ![k] = [@ EXCEPT !.pc = "write", !.read = scannedImages]]
    /\ UNCHANGED <<Workers, ImageNameReplacement, imageList, pc, dbCalls, dbErr, queue,
                   scannedImages, ret, retErr, wpStopped, resolverCall, summaryCall,
                   groupCall, cisCall>>

\* ... and the assignment stores the slice it read, extended by one element
AppendedSlice(k) ==
    Append(tasks[k].read,
           NewScannedImage(tasks[k].resolvedImageName, tasks[k].resolvedContainers,
                           tasks[k].trivyOutput, tasks[k].scanError))

AppendWrite(k) ==
    /\ tasks[k].pc = "write"
    /\ scannedImages' = AppendedSlice(k)
    /\ tasks' = [tasks EXCEPT ![k] = [@ EXCEPT !.pc = "rmi", !.read = <<>>]]
    /\ UNCHANGED <<Workers, ImageNameReplacement, imageList, pc, dbCalls, dbErr, queue,
                   ret, retErr, wpStopped, resolverCall, summaryCall,
                   groupCall, cisCall>>

RmiImage(k) ==
    /\ tasks[k].pc = "rmi"
    /\ \E failed \in BOOLEAN :
           tasks' = [tasks EXCEPT ![k] =
                        [@ EXCEPT !.pc = "done",
                                  !.err = FALSE,
                                  !.trivyOutput = <<>>,
                                  !.calls = Append(@, "RmiImage")]]
    /\ UNCHANGED <<Workers, ImageNameReplacement, imageList, pc, dbCalls, dbErr, queue,
                   scannedImages, ret, retErr, wpStopped, resolverCall, summaryCall,
                   groupCall, cisCall>>

(***************************************************************************)
(* scanImages, lines 230-231: StopWait returns when the waiting queue is   *)
(* empty and every worker has finished; then the slice is returned         *)
(***************************************************************************)
\* wp.Stop(): only the tasks already running are waited for
StopDone == Running = {}

StopWaitDone == queue = <<>> /\ Running = {}

StopWait ==
    /\ pc = "stopwait"
    /\ StopWaitDone
    /\ wpStopped' = TRUE
    /\ pc' = "returned"
    /\ ret' = scannedImages
    /\ retErr' = FALSE
    /\ UNCHANGED <<Workers, ImageNameReplacement, imageList, dbCalls, dbErr, tasks, queue,
                   scannedImages, resolverCall, summaryCall,
                   groupCall, cisCall>>

Next ==
    \/ DownloadDatabaseOk
    \/ DownloadDatabaseFails
    \/ \E imageName \in DOMAIN imageList : Submit(imageName)
    \/ LoopEnd
    \/ StartTask
    \/ \E k \in DOMAIN tasks : PullImage(k)
    \/ \E k \in DOMAIN tasks : ScanImage(k)
    \/ \E k \in DOMAIN tasks : AppendRead(k)
    \/ \E k \in DOMAIN tasks : AppendWrite(k)
    \/ \E k \in DOMAIN tasks : RmiImage(k)
    \/ StopWait

Spec == Init /\ [][Next]_vars

(***************************************************************************)
(* scanImages under fair scheduling, for every Workers value including     *)
(* those below 1: every external call returns and the goroutines of        *)
(* scanImages and of the pool are scheduled, so a step that can be taken   *)
(* is eventually taken.  There are at most two image groups, of one        *)
(* container each, and no rewrite rules.                                   *)
(***************************************************************************)
FairContainerLists ==
    {containers \in ContainerLists :
        /\ \A i \in 1..Len(containers) : containers[i].Image \in {<<"a">>, <<"b">>}
        /\ \A i \in 1..Len(containers) : \A j \in 1..Len(containers) :
               i # j => containers[i].Image # containers[j].Image}

FairInit ==
    /\ Workers \in (-1)..MaxWorkers
    /\ ImageNameReplacement = <<>>
    /\ \E containers \in FairContainerLists :
           imageList = groupContainersByImageName(containers)
    /\ pc = "start"
    /\ dbCalls = 0
    /\ dbErr = FALSE
    /\ tasks = [k \in DOMAIN imageList |-> Unsubmitted]
    /\ queue = <<>>
    /\ scannedImages = <<>>
    /\ ret = <<>>
    /\ retErr = FALSE
    /\ wpStopped = FALSE
    /\ resolverCall = NoCall
    /\ summaryCall = NoCall
    /\ groupCall = NoCall
    /\ cisCall = NoCall

FairSpec == FairInit /\ [][Next]_vars /\ WF_vars(Next)

(***************************************************************************)
(* Calls of stringReplacement on their own.  The rule string is the        *)
(* comma-joined list of entries, so that what the function sees is a       *)
(* string it has to split.                                                 *)
(***************************************************************************)
RECURSIVE Join(_, _)
Join(elems, sep) ==
    IF elems = <<>> THEN <<>>
    ELSE IF Len(elems) = 1 THEN elems[1]
    ELSE elems[1] \o <<sep>> \o Join(Tail(elems), sep)

\* "a|b", "b|a", "aa|b", "ab|", "|b", "a", "a|b|a", ""
RuleEntries ==
    { <<"a", "|", "b">>, <<"b", "|", "a">>, <<"a", "a", "|", "b">>,
      <<"a", "b", "|">>, <<"|", "b">>, <<"a">>, <<"a", "|", "b", "|", "a">>, <<>> }

ExampleName ==
    <<"r", "e", "g", "i", "s", "t", "r", "y", "/", "f", "o", "o", ":",
      "l", "a", "t", "e", "s", "t">>

ExampleEntries ==
    << <<"f", "o", "o", "|", "b", "a", "r">>, <<"b", "a", "r", "|", "b", "a", "z">> >>

ExampleResolved ==
    <<"r", "e", "g", "i", "s", "t", "r", "y", "/", "b", "a", "z", ":",
      "l", "a", "t", "e", "s", "t">>

ResolverInputs ==
    {[imageName |-> n, entries |-> e] :
        n \in SeqsUpTo({"a", "b"}, MaxNameLen), e \in SeqsUpTo(RuleEntries, MaxRules)}
        \cup {[imageName |-> ExampleName, entries |-> ExampleEntries]}

ResolverInit ==
    /\ \E in \in ResolverInputs :
           resolverCall = [state |-> "call", imageName |-> in.imageName,
                           entries |-> in.entries]
    /\ summaryCall = NoCall
    /\ groupCall = NoCall
    /\ cisCall = NoCall
    /\ Workers = 1
    /\ ImageNameReplacement = <<>>
    /\ imageList = <<>>
    /\ pc = "idle"
    /\ dbCalls = 0
    /\ dbErr = FALSE
    /\ tasks = <<>>
    /\ queue = <<>>
    /\ scannedImages = <<>>
    /\ ret = <<>>
    /\ retErr = FALSE
    /\ wpStopped = FALSE

ResolveName ==
    /\ resolverCall.state = "call"
    /\ LET r == stringReplacement(resolverCall.imageName,
                                  Join(resolverCall.entries, ","))
       IN  resolverCall' = [state |-> "done",
                            imageName |-> resolverCall.imageName,
                            entries |-> resolverCall.entries,
                            name |-> r.name,
                            err |-> r.err]
    /\ UNCHANGED <<scanVars, summaryCall, groupCall, cisCall>>

ResolverNext == ResolveName

ResolverSpec == ResolverInit /\ [][ResolverNext]_vars

(***************************************************************************)
(* Calls of NewScannedImage on their own: two finding sets are summarised. *)
(* A target holds a run of findings of one severity; a scan output has at  *)
(* most two targets.                                                       *)
(***************************************************************************)
Repeat(x, n) == [i \in 1..n |-> x]

LowerSeverities == {"HIGH", "MEDIUM", "LOW", "UNKNOWN"}

SummaryTargets ==
    { <<>>, <<"CRITICAL">>, <<"NEGLIGIBLE">> }
        \cup {Repeat(sev, n) : sev \in LowerSeverities, n \in {MaxCount - 1, MaxCount}}

SummaryOutputs ==
    { <<>> } \cup {<<t>> : t \in SummaryTargets}
             \cup {<<t, u>> : t \in SummaryTargets, u \in SummaryTargets}

SummaryInit ==
    /\ \E a \in SummaryOutputs, b \in SummaryOutputs :
           summaryCall = [state |-> "call", outputs |-> <<a, b>>]
    /\ resolverCall = NoCall
    /\ groupCall = NoCall
    /\ cisCall = NoCall
    /\ Workers = 1
    /\ ImageNameReplacement = <<>>
    /\ imageList = <<>>
    /\ pc = "idle"
    /\ dbCalls = 0
    /\ dbErr = FALSE
    /\ tasks = <<>>
    /\ queue = <<>>
    /\ scannedImages = <<>>
    /\ ret = <<>>
    /\ retErr = FALSE
    /\ wpStopped = FALSE

Summarise ==
    /\ summaryCall.state = "call"
    /\ summaryCall' =
           [state |-> "done",
            outputs |-> summaryCall.outputs,
            images |-> [i \in 1..2 |->
                           NewScannedImage(<<"a">>, <<>>, summaryCall.outputs[i], FALSE)]]
    /\ UNCHANGED <<scanVars, resolverCall, groupCall, cisCall>>

SummaryNext == Summarise

SummarySpec == SummaryInit /\ [][SummaryNext]_vars

(***************************************************************************)
(* Calls of groupContainersByImageName on their own.  Containers of one    *)
(* image are told apart by their names.                                    *)
(***************************************************************************)
GrouperContainerNames == {"app", "sidecar"}

GrouperInputs ==
    SeqsUpTo([Name : GrouperContainerNames, Image : ImageNames], MaxContainers)

GrouperInit ==
    /\ \E containers \in GrouperInputs :
           groupCall = [state |-> "call", containers |-> containers]
    /\ resolverCall = NoCall
    /\ summaryCall = NoCall
    /\ cisCall = NoCall
    /\ Workers = 1
    /\ ImageNameReplacement = <<>>
    /\ imageList = <<>>
    /\ pc = "idle"
    /\ dbCalls = 0
    /\ dbErr = FALSE
    /\ tasks = <<>>
    /\ queue = <<>>
    /\ scannedImages = <<>>
    /\ ret = <<>>
    /\ retErr = FALSE
    /\ wpStopped = FALSE

GroupContainers ==
    /\ groupCall.state = "call"
    /\ groupCall' = [state |-> "done",
                     containers |-> groupCall.containers,
                     images |-> groupContainersByImageName(groupCall.containers)]
    /\ UNCHANGED <<scanVars, resolverCall, summaryCall, cisCall>>

GrouperNext == GroupContainers

GrouperSpec == GrouperInit /\ [][GrouperNext]_vars

(***************************************************************************)
(* Scanner.CisScan, lines 235-251.  An error is the sequence of the parts  *)
(* of its message; no error is the empty sequence.  The nil slice handed   *)
(* to the report generator is the empty sequence.                          *)
(***************************************************************************)
Benchmarks == {"k8s-cis", "k8s-nsa", "k8s-pss-baseline"}

LabelNames == {"area", "team"}

\* outcomes of TrivyClient.CisScan: the compliance output of the benchmark, or
\* an error of the engine
CisOutputs(benchmark) ==
    {[ID |-> benchmark, Failures |-> f] : f \in {0, 1, 2}}

CisErrors == {"exit status 1", "context deadline exceeded"}

\* outcomes of AreaReport.GenerateVulnerabilityReport(scannedImages)
ReportResults(areaLabel, teamLabel, scannedImagesArg) ==
    {[report |-> [AreaLabelName |-> areaLabel, TeamLabelName |-> teamLabel,
                  from |-> scannedImagesArg],
      err |-> <<>>],
     [report |-> <<>>, err |-> <<"report generation failed">>]}

CisInit ==
    /\ \E benchmark \in Benchmarks, areaLabel \in LabelNames, teamLabel \in LabelNames :
           cisCall = [state |-> "call", benchmark |-> benchmark,
                      AreaLabels |-> areaLabel, TeamsLabels |-> teamLabel,
                      trivyOutput |-> <<>>, engineErr |-> <<>>,
                      reportArgs |-> <<>>, report |-> <<>>, err |-> <<>>]
    /\ resolverCall = NoCall
    /\ summaryCall = NoCall
    /\ groupCall = NoCall
    /\ Workers = 1
    /\ ImageNameReplacement = <<>>
    /\ imageList = <<>>
    /\ pc = "idle"
    /\ dbCalls = 0
    /\ dbErr = FALSE
    /\ tasks = <<>>
    /\ queue = <<>>
    /\ scannedImages = <<>>
    /\ ret = <<>>
    /\ retErr = FALSE
    /\ wpStopped = FALSE

\* line 238 succeeds
CisEngineOk ==
    /\ cisCall.state = "call"
    /\ \E out \in CisOutputs(cisCall.benchmark) :
           cisCall' = [cisCall EXCEPT !.state = "report", !.trivyOutput = out]
    /\ UNCHANGED <<scanVars, resolverCall, summaryCall, groupCall>>

\* lines 238-241: the engine fails and CisScan returns nil and the wrapped error
CisEngineFails ==
    /\ cisCall.state = "call"
    /\ \E cause \in CisErrors :
           cisCall' = [cisCall EXCEPT
                          !.state = "returned",
                          !.engineErr = <<cause>>,
                          !.report = <<>>,
                          !.err = <<"error executing trivy cluster scan: ", cause>>]
    /\ UNCHANGED <<scanVars, resolverCall, summaryCall, groupCall>>

\* the argument of GenerateVulnerabilityReport at line 250: nil
CisReportArgument == <<>>

\* lines 245-250: the report generator is called and its result returned
CisGenerateReport ==
    /\ cisCall.state = "report"
    /\ \E r \in ReportResults(cisCall.AreaLabels, cisCall.TeamsLabels, CisReportArgument) :
           cisCall' = [cisCall EXCEPT
                          !.state = "returned",
                          !.reportArgs = Append(@, CisReportArgument),
                          !.report = r.report,
                          !.err = r.err]
    /\ UNCHANGED <<scanVars, resolverCall, summaryCall, groupCall>>

CisNext ==
    \/ CisEngineOk
    \/ CisEngineFails
    \/ CisGenerateReport

CisSpec == CisInit /\ [][CisNext]_vars

(***************************************************************************)
(* Properties of scanImages (specification Spec)                           *)
(***************************************************************************)
AllCalls == <<"PullImage", "ScanImage", "RmiImage">>

\* the entries of a result collection that belong to image group k
ResultsFor(k, coll) == {i \in 1..Len(coll) : coll[i].Containers = imageList[k]}

Writers == {k \in DOMAIN tasks : tasks[k].pc = "write"}

\* C1: when scanImages returns without error, the returned collection holds
\* exactly one ScannedImage per image group: none missing, lost or duplicated.
C1_OnePerGroup ==
    (pc = "returned" /\ ~retErr) =>
        /\ Len(ret) = Cardinality(DOMAIN imageList)
        /\ \A k \in DOMAIN imageList : Cardinality(ResultsFor(k, ret)) = 1

\* C2: the append to the shared collection is mutually exclusive: never have
\* two tasks both read the collection while neither has written back.
C2_AppendMutex == Cardinality(Writers) <= 1

\* C3: DownloadDatabase is called exactly once and before any PullImage,
\* ScanImage or RmiImage; if it fails, scanImages returns an error with no
\* result collection and no per-image call is ever made.
C3_DatabaseFirst ==
    /\ dbCalls <= 1
    /\ pc # "start" => dbCalls = 1
    /\ \A k \in DOMAIN tasks :
           (tasks[k].pc # "unsubmitted" \/ tasks[k].calls # <<>>) =>
               (dbCalls = 1 /\ ~dbErr)
    /\ dbErr => /\ pc = "returned"
                /\ retErr
                /\ ret = <<>>
                /\ \A k \in DOMAIN tasks :
                       tasks[k].pc = "unsubmitted" /\ tasks[k].calls = <<>>

C3_ScannedAfterDownload ==
    /\ dbCalls = 1
    /\ \E k \in DOMAIN tasks : tasks[k].calls = AllCalls

\* C4: per-image failures are isolated: scanImages returns no error, every
\* task runs all its steps, every image has exactly one ScannedImage in the
\* result, whose ScanError is set exactly when its ScanImage call failed, and
\* then with all histogram counts zero and SeverityScore 0.
C4_Isolation ==
    (pc = "returned" /\ ~dbErr) =>
        /\ ~retErr
        /\ \A k \in DOMAIN imageList :
               /\ tasks[k].calls = AllCalls
               /\ Cardinality(ResultsFor(k, ret)) = 1
               /\ \A i \in ResultsFor(k, ret) :
                      /\ ret[i].ScanError = tasks[k].scanError
                      /\ ret[i].ScanError =>
                             /\ ret[i].VulnerabilitySummary.SeverityScore = 0
                             /\ \A sev \in DOMAIN ret[i].VulnerabilitySummary.TotalVulnerabilityBySeverity :
                                    ret[i].VulnerabilitySummary.TotalVulnerabilityBySeverity[sev] = 0

\* C5: scanImages returns only after every dispatched task has completed all
\* its steps: at the return no task is queued or running, and the collection
\* is not written after the return.
C5_JoinBeforeReturn ==
    pc = "returned" =>
        /\ queue = <<>>
        /\ Running = {}
        /\ \A k \in DOMAIN tasks :
               tasks[k].pc # "unsubmitted" =>
                   (tasks[k].pc = "done" /\ tasks[k].calls = AllCalls)
        /\ scannedImages = ret

C5_ReturnedAfterTasks ==
    /\ pc = "returned"
    /\ ~retErr
    /\ Workers >= 2
    /\ Cardinality(DOMAIN imageList) >= 2
    /\ \A k \in DOMAIN tasks : tasks[k].pc = "done"

\* C6: with Workers >= 1, the number of tasks started and not yet finished
\* never exceeds Workers; further tasks wait in the queue.
C6_BoundedConcurrency == Workers >= 1 => Cardinality(Running) <= Workers

C6_TaskWaitsForWorker ==
    /\ Workers = MaxWorkers
    /\ Cardinality(Running) = Workers
    /\ queue # <<>>

\* C7: when the rule string has an entry without exactly one '|',
\* stringReplacement returns an error and the original name unchanged, and
\* the task of that group works on, and records, the original name.
PipeCount(entry) == Cardinality({i \in 1..Len(entry) : entry[i] = "|"})

MalformedRules(rules) ==
    /\ rules # <<>>
    /\ \E i \in 1..Len(Split(rules, ",")) : PipeCount(Split(rules, ",")[i]) # 1

C7_OriginalNameOnFormatError ==
    \A k \in DOMAIN tasks :
        (MalformedRules(ImageNameReplacement) /\ tasks[k].pc # "unsubmitted") =>
            /\ stringReplacement(k, ImageNameReplacement).err
            /\ tasks[k].resolvedImageName = k
            /\ \A i \in ResultsFor(k, scannedImages) : scannedImages[i].ImageName = k

Submitted == {k \in DOMAIN tasks : tasks[k].pc # "unsubmitted"}

\* C13: no two tasks dispatched in one run carry the same resolved image
\* name, and the result holds at most one ScannedImage per resolved name.
C13_DistinctResolvedImages ==
    /\ \A k \in Submitted : \A j \in Submitted :
           k # j => tasks[k].resolvedImageName # tasks[j].resolvedImageName
    /\ \A i \in 1..Len(scannedImages) : \A j \in 1..Len(scannedImages) :
           i # j => scannedImages[i].ImageName # scannedImages[j].ImageName

\* C14: every ScannedImage in the collection carries the containers of one
\* image group, the name resolved for that group and the scan outcome of that
\* group's task, and its ContainerCount is the size of the group, whether the
\* scan succeeded or failed.
OwnGroupRecorded(image) ==
    \E k \in DOMAIN imageList :
        /\ image.Containers = imageList[k]
        /\ image.ImageName = stringReplacement(k, ImageNameReplacement).name
        /\ image.ScanError = tasks[k].scanError
        /\ image.VulnerabilitySummary.ContainerCount = Len(imageList[k])

C14_OwnGroupRecorded ==
    /\ \A i \in 1..Len(scannedImages) : OwnGroupRecorded(scannedImages[i])
    /\ \A i \in 1..Len(ret) : OwnGroupRecorded(ret[i])
    /\ \A k \in Submitted : tasks[k].resolvedContainers = imageList[k]

C14_TwoGroupsRecorded ==
    /\ pc = "returned"
    /\ Workers = 2
    /\ \E i \in 1..Len(ret) : \E j \in 1..Len(ret) :
           /\ ret[i].VulnerabilitySummary.ContainerCount = 2
           /\ ret[i].ScanError
           /\ ret[j].VulnerabilitySummary.ContainerCount = 1
           /\ ~ret[j].ScanError

\* C16: within a task the external calls are one PullImage, then one
\* ScanImage, then one RmiImage, in that order and never repeated; a task
\* that leaves a call goes on to the next step whether the call failed or not.
CallsInOrder(k) ==
    CASE tasks[k].pc \in {"unsubmitted", "queued", "pull"} -> tasks[k].calls = <<>>
      [] tasks[k].pc = "scan" -> tasks[k].calls = <<"PullImage">>
      [] tasks[k].pc \in {"append", "write", "rmi"} ->
             tasks[k].calls = <<"PullImage", "ScanImage">>
      [] tasks[k].pc = "done" -> tasks[k].calls = AllCalls

NextStep(k) ==
    /\ tasks[k].pc = "pull" => tasks'[k].pc \in {"pull", "scan"}
    /\ tasks[k].pc = "scan" => tasks'[k].pc \in {"scan", "append"}
    /\ tasks[k].pc = "rmi" => tasks'[k].pc \in {"rmi", "done"}
    /\ tasks[k].pc = "done" => tasks'[k] = tasks[k]

C16_PullScanRemove ==
    /\ [](\A k \in DOMAIN tasks : CallsInOrder(k))
    /\ [][\A k \in DOMAIN tasks : NextStep(k)]_vars

C16_RemovedAfterFailedScan ==
    \E k \in DOMAIN tasks :
        tasks[k].pc = "done" /\ tasks[k].scanError /\ tasks[k].calls = AllCalls

C19_NoRemovalBeforeScan ==
    [][\A k \in DOMAIN tasks : \A j \in DOMAIN tasks :
           (/\ k # j
            /\ tasks[k].pc = "scan"
            /\ tasks[j].pc = "rmi"
            /\ tasks[j].resolvedImageName = tasks[k].resolvedImageName)
               => tasks'[j].pc = "rmi"]_vars

\* C20: on every return of scanImages the worker pool it created has been
\* stopped.
C20_PoolStoppedOnReturn == pc = "returned" => wpStopped

(***************************************************************************)
(* Properties of stringReplacement (specification ResolverSpec)            *)
(***************************************************************************)
\* Global literal replacement, stated by positions: the replaced occurrences
\* of old are chosen from the left without overlap; each is replaced by new,
\* every other character is kept.  An empty old stands before every
\* character and at the end.
Occurrences(s, old) ==
    {i \in 1..(Len(s) - Len(old) + 1) : SubSeq(s, i, i + Len(old) - 1) = old}

Covered(S, old, i) == \E j \in S : j < i /\ i < j + Len(old)

Replaced(s, old) ==
    CHOOSE S \in SUBSET Occurrences(s, old) :
        \A i \in Occurrences(s, old) : i \in S <=> ~Covered(S, old, i)

RECURSIVE Pieces(_, _, _, _, _)
Pieces(s, old, new, S, i) ==
    IF i > Len(s) THEN <<>>
    ELSE (IF i \in S THEN new
          ELSE IF Covered(S, old, i) THEN <<>>
          ELSE <<s[i]>>) \o Pieces(s, old, new, S, i + 1)

RECURSIVE Interleave(_, _, _)
Interleave(s, new, i) ==
    IF i > Len(s) THEN new ELSE new \o <<s[i]>> \o Interleave(s, new, i + 1)

GlobalLiteralReplace(s, old, new) ==
    IF old = <<>> THEN Interleave(s, new, 1)
    ELSE Pieces(s, old, new, Replaced(s, old), 1)

PipeAt(entry) == CHOOSE i \in 1..Len(entry) : entry[i] = "|"

\* the rules of a rule string given by its entries; the empty string has none
RuleList(entries) == IF Join(entries, ",") = <<>> THEN <<>> ELSE entries

WellFormedRules(entries) ==
    \A i \in 1..Len(RuleList(entries)) : PipeCount(RuleList(entries)[i]) = 1

RECURSIVE FoldRules(_, _)
FoldRules(name, rules) ==
    IF rules = <<>> THEN name
    ELSE LET last == rules[Len(rules)]
         IN  GlobalLiteralReplace(FoldRules(name, SubSeq(rules, 1, Len(rules) - 1)),
                                  SubSeq(last, 1, PipeAt(last) - 1),
                                  SubSeq(last, PipeAt(last) + 1, Len(last)))

\* C8: for a well-formed rule string stringReplacement returns, without
\* error, the left-to-right fold of global literal replacement over the
\* rules: each rule replaces every occurrence of its match string in the
\* output of the previous rule.
C8_SequentialFold ==
    (resolverCall.state = "done" /\ WellFormedRules(resolverCall.entries)) =>
        /\ ~resolverCall.err
        /\ resolverCall.name =
               FoldRules(resolverCall.imageName, RuleList(resolverCall.entries))

C8_ExampleResolved ==
    /\ resolverCall.state = "done"
    /\ resolverCall.imageName = ExampleName
    /\ resolverCall.entries = ExampleEntries
    /\ resolverCall.name = ExampleResolved

\* C17: a non-empty rule string in which some rule does not split into
\* exactly two non-empty parts is rejected with a format error.
Degenerate(entry) ==
    \/ PipeCount(entry) # 1
    \/ PipeAt(entry) = 1
    \/ PipeAt(entry) = Len(entry)

C17_DegenerateRejected ==
    (/\ resolverCall.state = "done"
     /\ \E i \in 1..Len(RuleList(resolverCall.entries)) :
            Degenerate(RuleList(resolverCall.entries)[i]))
        => resolverCall.err

(***************************************************************************)
(* Properties of NewScannedImage (specification SummarySpec)               *)
(***************************************************************************)
Histogram(i) == summaryCall.images[i].VulnerabilitySummary.TotalVulnerabilityBySeverity

Score(i) == summaryCall.images[i].VulnerabilitySummary.SeverityScore

\* the number of findings of severity sev in a scan output
Findings(output, sev) ==
    Cardinality({<<t, j>> \in (1..Len(output)) \X (1..MaxCount + 1) :
                    j <= Len(output[t]) /\ output[t][j] = sev})

OnlyLower(output) ==
    \A t \in 1..Len(output) : \A j \in 1..Len(output[t]) : output[t][j] \in LowerSeverities

\* C9: for every set of findings, also the empty one and one with a severity
\* string that is not a known level, the histogram has exactly the five keys
\* CRITICAL, HIGH, MEDIUM, LOW and UNKNOWN.
C9_FiveKeys ==
    summaryCall.state = "done" =>
        \A i \in 1..2 :
            DOMAIN Histogram(i) = {"CRITICAL", "HIGH", "MEDIUM", "LOW", "UNKNOWN"}

\* C10 as stated: a set with at least one CRITICAL finding scores strictly
\* more than any set of only HIGH, MEDIUM, LOW and UNKNOWN findings, however
\* many these are.
C10_CriticalDominates ==
    (/\ summaryCall.state = "done"
     /\ Findings(summaryCall.outputs[1], "CRITICAL") >= 1
     /\ OnlyLower(summaryCall.outputs[2]))
        => Score(1) > Score(2)

\* C10 as amended: a set with at least one CRITICAL finding scores strictly
\* more than any set of only HIGH, MEDIUM, LOW and UNKNOWN findings that has
\* fewer than 100 findings of each of these severities.
C10_CriticalDominatesBelow100 ==
    (/\ summaryCall.state = "done"
     /\ Findings(summaryCall.outputs[1], "CRITICAL") >= 1
     /\ OnlyLower(summaryCall.outputs[2])
     /\ \A sev \in LowerSeverities : Findings(summaryCall.outputs[2], sev) < 100)
        => Score(1) > Score(2)

C10_OneCriticalAbove99High ==
    /\ summaryCall.state = "done"
    /\ Findings(summaryCall.outputs[1], "CRITICAL") = 1
    /\ Findings(summaryCall.outputs[2], "HIGH") = 99
    /\ Findings(summaryCall.outputs[2], "MEDIUM") = 99
    /\ OnlyLower(summaryCall.outputs[2])
    /\ Score(1) > Score(2)

(***************************************************************************)
(* Properties of groupContainersByImageName (specification GrouperSpec)    *)
(***************************************************************************)
WithImage(containers, image) == SelectSeq(containers, LAMBDA c : c.Image = image)

\* C11: the keys of the result are exactly the distinct images of the input;
\* the group of an image holds the input containers of that image, each once
\* and in input order, so no group is empty and no container is lost or
\* duplicated; an empty input gives an empty mapping.
C11_GroupingComplete ==
    groupCall.state = "done" =>
        /\ DOMAIN groupCall.images =
               {groupCall.containers[i].Image : i \in 1..Len(groupCall.containers)}
        /\ \A image \in DOMAIN groupCall.images :
               /\ groupCall.images[image] = WithImage(groupCall.containers, image)
               /\ groupCall.images[image] # <<>>

C11_TwoGroupsInOrder ==
    /\ groupCall.state = "done"
    /\ Cardinality(DOMAIN groupCall.images) = 2
    /\ \E image \in DOMAIN groupCall.images :
           /\ Len(groupCall.images[image]) = 2
           /\ groupCall.images[image][1] # groupCall.images[image][2]
           /\ groupCall.containers[1] = groupCall.images[image][1]
           /\ groupCall.containers[3] = groupCall.images[image][2]

(***************************************************************************)
(* Properties of CisScan (specification CisSpec)                           *)
(***************************************************************************)
Parts(e) == {e[i] : i \in 1..Len(e)}

\* C12: when the compliance engine call succeeds, the report generator is
\* invoked with the output the engine returned for the benchmark.
C12_ReportFromEngineOutput ==
    (cisCall.state = "returned" /\ cisCall.engineErr = <<>>) =>
        cisCall.reportArgs = <<cisCall.trivyOutput>>

\* C15: when the compliance engine call fails, CisScan returns an error and
\* no report, the report generator is never invoked, and the error carries
\* the benchmark name and the underlying cause.
C15_EngineFailureAborts ==
    (cisCall.state = "returned" /\ cisCall.engineErr # <<>>) =>
        /\ cisCall.err # <<>>
        /\ cisCall.report = <<>>
        /\ cisCall.reportArgs = <<>>
        /\ Parts(cisCall.engineErr) \subseteq Parts(cisCall.err)
        /\ cisCall.benchmark \in Parts(cisCall.err)

====
